---- MODULE Spec2Model ----
(***************************************************************************)
(* State-machine model of the CCS811 driver (src/src/chip.rs,              *)
(* src/src/constants.rs, src/src/lib.rs).                                  *)
(*                                                                         *)
(* The driver is synchronous and single-threaded: one public operation     *)
(* runs at a time, as a sequence of bus transactions and pin actions.      *)
(* Every step of an operation is one action; `trace` records the pin       *)
(* actions and bus transactions the current call has issued, in order.     *)
(***************************************************************************)
EXTENDS Integers, Sequences, FiniteSets, TLC

VARIABLES
    hasWake,         \* CCS811.wake is Some(pin)
    wakeLevel,       \* electrical level of the wake pin: "high" | "low" | "none"
    op,              \* the public operation being executed
    pc,              \* position inside the operation
    trace,           \* pin actions and bus transactions issued by the current call
    result,          \* value returned by the current call (NoResult while running)
    first,           \* begin(): value of the Result::and chain so far
    data,            \* flash(): the firmware image
    i,               \* flash(): loop index
    mode,            \* start(): the requested Ccs811Mode, as its discriminant
    arg,             \* set_baseline(), set_env_data(): the arguments of the call
    chipTracksValid, \* the chip keeps its valid-application bit as the datasheet says
    appValid,        \* chip side: a valid application is present
    prev,            \* how the previous call ended
    prevFail         \* flash(): step and message of the failed flash() called just before

vars == <<hasWake, wakeLevel, op, pc, trace, result, first, data, i, mode, arg,
          chipTracksValid, appValid, prev, prevFail>>

----------------------------------------------------------------------------
(* Bounds of the model *)

\* longest firmware image
MaxLen == 20

----------------------------------------------------------------------------
(* Register map: src/src/constants.rs *)

CCS811_STATUS == 0
CCS811_MEAS_MODE == 1
CCS811_ALG_RESULT_DATA == 2
CCS811_ENV_DATA == 5
CCS811_BASELINE == 17
CCS811_HW_ID == 32
CCS811_HW_VERSION == 33
CCS811_FW_BOOT_VERSION == 35
CCS811_FW_APP_VERSION == 36
CCS811_APP_ERASE == 241
CCS811_APP_DATA == 242
CCS811_APP_VERIFY == 243
CCS811_APP_START == 244
CCS811_SW_RESET == 255

CCS811_STATUS_APP_MODE == 128
CCS811_STATUS_APP_ERASE == 64
CCS811_STATUS_APP_VERIFY == 32
CCS811_STATUS_APP_VALID == 16

\* the hardware id check_hw_id expects
HW_ID_EXPECTED == 129
\* bytes per application-data write
CHUNK == 8
\* largest accepted readings
MAX_TVOC == 1187
MAX_ECO2 == 8192

RESET_MAGIC == <<17, 229, 114, 138>>
ERASE_MAGIC == <<231, 167, 230, 9>>

----------------------------------------------------------------------------
(* u8 bit operations *)

RECURSIVE BitAndN(_, _, _)
BitAndN(a, b, n) ==
    IF n = 0 THEN 0
    ELSE (IF a % 2 = 1 /\ b % 2 = 1 THEN 1 ELSE 0)
         + 2 * BitAndN(a \div 2, b \div 2, n - 1)

BitAnd(a, b) == BitAndN(a, b, 8)

RECURSIVE BitOrN(_, _, _)
BitOrN(a, b, n) ==
    IF n = 0 THEN 0
    ELSE (IF a % 2 = 1 \/ b % 2 = 1 THEN 1 ELSE 0)
         + 2 * BitOrN(a \div 2, b \div 2, n - 1)

BitOr(a, b) == BitOrN(a, b, 8)

----------------------------------------------------------------------------
(* Result<_, String>: ok, or an error whose message is a chain of labels   *)
(* (outermost map_err first) with the values formatted into it.            *)

NoData == [e_co2 |-> 0, t_voc |-> 0, raw |-> <<>>]
Ok == [ok |-> TRUE, label |-> <<>>, args |-> <<>>, val |-> NoData]
\* Ok(bytes): a register value handed back as it was read
OkBytes(bytes) ==
    [ok |-> TRUE, label |-> <<>>, args |-> <<>>,
     val |-> [e_co2 |-> 0, t_voc |-> 0, raw |-> bytes]]
OkData(d) == [ok |-> TRUE, label |-> <<>>, args |-> <<>>, val |-> d]
Err(l, a) == [ok |-> FALSE, label |-> <<l>>, args |-> a, val |-> NoData]
NoResult == [ok |-> FALSE, label |-> <<"running">>, args |-> <<>>, val |-> NoData]

\* Result::map_err(|error| format!("<prefix>: {}", error))
map_err(prefix, r) ==
    IF r.ok THEN r ELSE [r EXCEPT !.label = <<prefix>> \o r.label]

\* Result::and: both operands are already evaluated when it is applied
and(a, b) == IF a.ok THEN b ELSE a

----------------------------------------------------------------------------
(* Events of a call *)

\* The fields of an event are written in the order TLC keeps them (data, ok,
\* reg, kind), so that no worker ever reorders a record another one reads.
Write(reg, bytes, ok) == [data |-> bytes, ok |-> ok, reg |-> reg, kind |-> "write"]
Read(reg, bytes, ok) == [data |-> bytes, ok |-> ok, reg |-> reg, kind |-> "read"]
Pin(level) ==
    [data |-> <<>>, ok |-> TRUE, reg |-> -1,
     kind |-> IF level = "low" THEN "set_low" ELSE "set_high"]

----------------------------------------------------------------------------
(* Inputs *)

\* values the hardware-id register may return
HwIds == {HW_ID_EXPECTED, 0, 128}

\* values the status register may return
StatusValues == {0, 16, 64, 80, 112, 176}

\* firmware images: every length up to MaxLen, bytes distinct per position
ImageByte(k) == (11 + 37 * k) % 256
Images == {[k \in 1..n |-> ImageByte(k)] : n \in 0..MaxLen}

\* algorithm-result blocks around the limits of both readings
Buffers ==
    {<<b0, b1, b2, b3, 0, b5, 0, 0>> :
        b0 \in {1, 32}, b1 \in {0, 1, 148}, b2 \in {0, 4}, b3 \in {50, 163, 164},
        b5 \in {0, 1, 255}}

\* The status register as the chip reports it: a chip that tracks its
\* valid-application bit reports it in bit 4.
StatusReadable(s) ==
    chipTracksValid => ((BitAnd(s, CCS811_STATUS_APP_VALID) # 0) <=> appValid)

----------------------------------------------------------------------------
(* Private helpers of CCS811, as functions of what the bus returned *)

reset(ok) == IF ok THEN Ok ELSE Err("Couldn't write to I2C", <<>>)

app_start(ok) == IF ok THEN Ok ELSE Err("Could not set App start", <<>>)

erase_app(ok) == IF ok THEN Ok ELSE Err("Could not erase app", <<>>)

check_hw_id(ok, hw_id) ==
    IF ~ok THEN Err("Couldn't read HWID", <<>>)
    ELSE IF hw_id # HW_ID_EXPECTED THEN Err("HWID of chip is not 0x81 but", <<hw_id>>)
    ELSE Ok

check_status_pass(expected, ok, status) ==
    IF ~ok THEN Err("Could not read chip status", <<>>)
    ELSE Ok

check_status(expected, ok, status) ==
    IF ~ok THEN Err("Could not read chip status", <<>>)
    ELSE IF BitAnd(status, expected) = 0
         THEN Err("Chip status is not", <<expected, status>>)
    ELSE Ok

\* the mask begin() hands to check_status
BeginStatusMask == BitAnd(CCS811_STATUS_APP_MODE, CCS811_STATUS_APP_VERIFY)

\* the mask of flash()'s "Not verified" checkpoint
VerifiedMask ==
    BitOr(BitOr(CCS811_STATUS_APP_ERASE, CCS811_STATUS_APP_VERIFY),
          CCS811_STATUS_APP_VALID)

\* an awake() that leaves the pin as it is
AwakeLevelNoop == wakeLevel

\* awake(): drive the wake pin low, if there is one
AwakeLevel == IF hasWake THEN "low" ELSE wakeLevel
AwakeEvents == IF hasWake THEN <<Pin("low")>> ELSE <<>>

\* sleep(): drive the wake pin high, if there is one
SleepLevel == IF hasWake THEN "high" ELSE wakeLevel
SleepEvents == IF hasWake THEN <<Pin("high")>> ELSE <<>>

\* the `?` operator: go on when the step succeeded, return its error otherwise
TryAlways(r, next) == next
Try(r, next) == IF r.ok THEN next ELSE "done"

----------------------------------------------------------------------------
(* Calls *)

Idle == pc \in {"idle", "done"}

\* what the next call knows of the call that just ended
Outcome ==
    IF pc = "idle" THEN "none"
    ELSE IF op = "flash" /\ ~result.ok /\ result.label[1] = "Could not write firmware"
         THEN "flashChunkAbort"
    ELSE "other"

\* the step of flash() that the last event of the trace belongs to
FlashStepReached ==
    LET n == Len(trace)
        after == Len(SelectSeq(trace,
                     LAMBDA e : e.kind = "write" /\ e.reg = CCS811_APP_VERIFY)) IN
    IF n = 0 THEN "address"
    ELSE IF trace[n].kind = "write" /\ trace[n].reg = CCS811_APP_DATA THEN "chunk write"
    ELSE IF trace[n].kind = "write" /\ trace[n].reg = CCS811_APP_VERIFY THEN "verify command"
    ELSE IF trace[n].kind = "write" /\ trace[n].reg = CCS811_APP_ERASE THEN "erase"
    ELSE IF trace[n].kind = "write" /\ trace[n].reg = CCS811_SW_RESET
         THEN (IF after = 0 THEN "first reset" ELSE "second reset")
    ELSE IF after = 0 THEN (IF n = 2 THEN "not valid check" ELSE "not erased check")
    ELSE IF trace[n - 1].kind = "write" /\ trace[n - 1].reg = CCS811_APP_VERIFY
         THEN "not verified check"
    ELSE "final check"

NoFail == [label |-> <<>>, step |-> "none"]

\* the failure of the flash() call that just ended, if it was one
FlashFailure ==
    IF pc = "done" /\ op = "flash" /\ ~result.ok
    THEN [label |-> result.label, step |-> FlashStepReached]
    ELSE NoFail

\* entry of a public operation; f is what is remembered of a failed flash()
EnterAfter(o, p, img, m, a, f) ==
    /\ Idle
    /\ op' = o
    /\ pc' = p
    /\ trace' = <<>>
    /\ result' = NoResult
    /\ first' = Ok
    /\ data' = img
    /\ i' = 0
    /\ mode' = m
    /\ arg' = a
    /\ prev' = Outcome
    /\ prevFail' = f
    /\ UNCHANGED <<hasWake, wakeLevel, chipTracksValid, appValid>>

Enter(o, p, img, m, a) == EnterAfter(o, p, img, m, a, NoFail)

Init ==
    /\ hasWake \in BOOLEAN
    /\ wakeLevel \in (IF hasWake THEN {"high", "low"} ELSE {"none"})
    /\ op = "none"
    /\ pc = "idle"
    /\ trace = <<>>
    /\ result = NoResult
    /\ first = Ok
    /\ data = <<>>
    /\ i = 0
    /\ mode = 0
    /\ arg = <<>>
    /\ chipTracksValid \in BOOLEAN
    /\ appValid \in (IF chipTracksValid THEN BOOLEAN ELSE {FALSE})
    /\ prev = "none"
    /\ prevFail = NoFail

----------------------------------------------------------------------------
(* begin() *)

\* the order in which begin() evaluates its steps
BeginNextSwapped(p) ==
    CASE p = "b_addr" -> "b_awake"
      [] p = "b_awake" -> "b_reset"
      [] p = "b_reset" -> "b_appstart"
      [] p = "b_appstart" -> "b_hwid"
      [] p = "b_hwid" -> "b_status"
      [] p = "b_status" -> "b_finish"
      [] OTHER -> "done"

BeginNext(p) ==
    CASE p = "b_addr" -> "b_awake"
      [] p = "b_awake" -> "b_reset"
      [] p = "b_reset" -> "b_hwid"
      [] p = "b_hwid" -> "b_appstart"
      [] p = "b_appstart" -> "b_status"
      [] p = "b_status" -> "b_finish"
      [] OTHER -> "done"

CallBegin == Enter("begin", "b_addr", <<>>, 0, <<>>)

\* self.i2c.set_slave_address(CCS811_SLAVEADDR_0)...?
BeginSetAddr ==
    /\ pc = "b_addr"
    /\ \E ok \in BOOLEAN :
         LET r == map_err("Could not set slave addr",
                          IF ok THEN Ok ELSE Err("ioctl", <<>>)) IN
         /\ pc' = Try(r, BeginNext(pc))
         /\ result' = IF r.ok THEN result ELSE r
    /\ UNCHANGED <<hasWake, wakeLevel, op, trace, first, data, i, mode, arg,
                   chipTracksValid, appValid, prev, prevFail>>

\* self.awake()
BeginAwake ==
    /\ pc = "b_awake"
    /\ wakeLevel' = AwakeLevel
    /\ trace' = trace \o AwakeEvents
    /\ pc' = BeginNext(pc)
    /\ UNCHANGED <<hasWake, op, result, first, data, i, mode, arg,
                   chipTracksValid, appValid, prev, prevFail>>

\* self.reset()
BeginReset ==
    /\ pc = "b_reset"
    /\ \E ok \in BOOLEAN :
         /\ trace' = Append(trace, Write(CCS811_SW_RESET, RESET_MAGIC, ok))
         /\ first' = reset(ok)
    /\ pc' = BeginNext(pc)
    /\ UNCHANGED <<hasWake, wakeLevel, op, result, data, i, mode, arg,
                   chipTracksValid, appValid, prev, prevFail>>

\* .and(self.check_hw_id())
BeginCheckHwId ==
    /\ pc = "b_hwid"
    /\ \E ok \in BOOLEAN, id \in HwIds :
         /\ trace' = Append(trace, Read(CCS811_HW_ID, IF ok THEN <<id>> ELSE <<>>, ok))
         /\ first' = and(first, check_hw_id(ok, id))
    /\ pc' = BeginNext(pc)
    /\ UNCHANGED <<hasWake, wakeLevel, op, result, data, i, mode, arg,
                   chipTracksValid, appValid, prev, prevFail>>

\* .and(self.app_start())
BeginAppStart ==
    /\ pc = "b_appstart"
    /\ \E ok \in BOOLEAN :
         /\ trace' = Append(trace, Write(CCS811_APP_START, <<>>, ok))
         /\ first' = and(first, app_start(ok))
    /\ pc' = BeginNext(pc)
    /\ UNCHANGED <<hasWake, wakeLevel, op, result, data, i, mode, arg,
                   chipTracksValid, appValid, prev, prevFail>>

\* .and(self.check_status(CCS811_STATUS_APP_MODE & CCS811_STATUS_APP_VERIFY))
BeginCheckStatus ==
    /\ pc = "b_status"
    /\ \E ok \in BOOLEAN, s \in StatusValues :
         /\ StatusReadable(s)
         /\ trace' = Append(trace, Read(CCS811_STATUS, IF ok THEN <<s>> ELSE <<>>, ok))
         /\ first' = and(first, check_status(BeginStatusMask, ok, s))
    /\ pc' = BeginNext(pc)
    /\ UNCHANGED <<hasWake, wakeLevel, op, result, data, i, mode, arg,
                   chipTracksValid, appValid, prev, prevFail>>

\* a begin() that puts the chip to sleep on its failure path too
BeginFinishSleeps ==
    /\ pc = "b_finish"
    /\ pc' = "done"
    /\ result' = first
    /\ wakeLevel' = SleepLevel
    /\ trace' = trace \o SleepEvents
    /\ UNCHANGED <<hasWake, op, first, data, i, mode, arg, chipTracksValid, appValid, prev, prevFail>>

\* ...?; self.sleep(); Ok(())
BeginFinish ==
    /\ pc = "b_finish"
    /\ pc' = "done"
    /\ result' = first
    /\ wakeLevel' = IF first.ok THEN SleepLevel ELSE wakeLevel
    /\ trace' = IF first.ok THEN trace \o SleepEvents ELSE trace
    /\ UNCHANGED <<hasWake, op, first, data, i, mode, arg, chipTracksValid, appValid, prev, prevFail>>

----------------------------------------------------------------------------
(* start(mode) *)

Modes == {0, 1, 2, 3}

\* a shift by one bit less
ModeByteShift3(m) == (m * 8) % 256

\* (mode as u8) << 4
ModeByte(m) == (m * 16) % 256

CallStart == \E m \in Modes : Enter("start", "s_awake", <<>>, m, <<>>)

\* self.awake()
StartAwake ==
    /\ pc = "s_awake"
    /\ wakeLevel' = AwakeLevel
    /\ trace' = trace \o AwakeEvents
    /\ pc' = "s_write"
    /\ UNCHANGED <<hasWake, op, result, first, data, i, mode, arg,
                   chipTracksValid, appValid, prev, prevFail>>

\* self.i2c.block_write(CCS811_MEAS_MODE, &[(mode as u8) << 4])...?; self.sleep(); Ok(())
StartWrite ==
    /\ pc = "s_write"
    /\ \E ok \in BOOLEAN :
         LET r == IF ok THEN Ok ELSE Err("Could not set mode", <<>>)
             ev == Write(CCS811_MEAS_MODE, <<ModeByte(mode)>>, ok) IN
         /\ trace' = IF r.ok THEN Append(trace, ev) \o SleepEvents ELSE Append(trace, ev)
         /\ wakeLevel' = IF r.ok THEN SleepLevel ELSE wakeLevel
         /\ result' = r
    /\ pc' = "done"
    /\ UNCHANGED <<hasWake, op, first, data, i, mode, arg, chipTracksValid, appValid, prev, prevFail>>

----------------------------------------------------------------------------
(* read() *)

\* the part of read() after the block was read and the chip put to sleep
read_decode_swapped(buffer) ==
    LET d == [e_co2 |-> (buffer[1] * 256 + buffer[2]) % 65536,
              t_voc |-> (buffer[3] * 256 + buffer[4]) % 65536,
              raw |-> buffer] IN
    IF d.t_voc > MAX_TVOC \/ d.e_co2 > MAX_ECO2
    THEN Err("The data is above max", <<d.t_voc, d.e_co2>>)
    ELSE IF buffer[6] # 0
    THEN Err("Some error while reading data", <<buffer[6]>>)
    ELSE OkData(d)

read_decode_strict(buffer) ==
    LET d == [e_co2 |-> (buffer[1] * 256 + buffer[2]) % 65536,
              t_voc |-> (buffer[3] * 256 + buffer[4]) % 65536,
              raw |-> buffer] IN
    IF buffer[6] # 0
    THEN Err("Some error while reading data", <<buffer[6]>>)
    ELSE IF d.t_voc >= MAX_TVOC \/ d.e_co2 >= MAX_ECO2
    THEN Err("The data is above max", <<d.t_voc, d.e_co2>>)
    ELSE OkData(d)

read_decode(buffer) ==
    LET d == [e_co2 |-> (buffer[1] * 256 + buffer[2]) % 65536,
              t_voc |-> (buffer[3] * 256 + buffer[4]) % 65536,
              raw |-> buffer] IN
    IF buffer[6] # 0
    THEN Err("Some error while reading data", <<buffer[6]>>)
    ELSE IF d.t_voc > MAX_TVOC \/ d.e_co2 > MAX_ECO2
    THEN Err("The data is above max", <<d.t_voc, d.e_co2>>)
    ELSE OkData(d)

CallRead == Enter("read", "r_awake", <<>>, 0, <<>>)

\* let mut buffer = [0; 8]; self.awake()
ReadAwake ==
    /\ pc = "r_awake"
    /\ wakeLevel' = AwakeLevel
    /\ trace' = trace \o AwakeEvents
    /\ pc' = "r_read"
    /\ UNCHANGED <<hasWake, op, result, first, data, i, mode, arg,
                   chipTracksValid, appValid, prev, prevFail>>

\* self.i2c.block_read(CCS811_ALG_RESULT_DATA, &mut buffer)...?; self.sleep(); decode
ReadBlock ==
    /\ pc = "r_read"
    /\ \E ok \in BOOLEAN, buffer \in Buffers :
         LET r == IF ok THEN Ok ELSE Err("Could not read chip data", <<>>)
             ev == Read(CCS811_ALG_RESULT_DATA, IF ok THEN buffer ELSE <<>>, ok) IN
         /\ trace' = IF r.ok THEN Append(trace, ev) \o SleepEvents ELSE Append(trace, ev)
         /\ wakeLevel' = IF r.ok THEN SleepLevel ELSE wakeLevel
         /\ result' = IF r.ok THEN read_decode(buffer) ELSE r
    /\ pc' = "done"
    /\ UNCHANGED <<hasWake, op, first, data, i, mode, arg, chipTracksValid, appValid, prev, prevFail>>

----------------------------------------------------------------------------
(* flash(data) *)

\* end of the chunk that starts at index i of an image of n bytes
ChunkEndShort(ix, n) == IF ix + CHUNK - 1 > n THEN n ELSE ix + CHUNK - 1

ChunkEnd(ix, n) == IF ix + CHUNK > n THEN n ELSE ix + CHUNK

\* a loop index that is not advanced
AdvanceStuck(ix) == ix

\* i += 8
Advance(ix) == ix + CHUNK

\* &data[i..end]
Slice(img, from, to) == SubSeq(img, from + 1, to)

\* Chip side: the erase command clears the valid-application bit, the verify
\* command after the image was written sets it again.
ChipAfterErase(ok) == IF ok /\ chipTracksValid THEN FALSE ELSE appValid
ChipAfterVerify(ok) == IF ok /\ chipTracksValid THEN TRUE ELSE appValid

CallFlash == \E img \in Images : Enter("flash", "f_addr", img, 0, <<>>)

\* flash() called again, remembering how the flash() before it failed
CallFlashAgain ==
    \E img \in Images : EnterAfter("flash", "f_addr", img, 0, <<>>, FlashFailure)

\* one step of flash(): the transaction is issued, `?` decides what follows
FlashStep(ev, r, next) ==
    /\ trace' = Append(trace, ev)
    /\ pc' = Try(r, next)
    /\ result' = IF r.ok THEN result ELSE r

\* self.i2c.set_slave_address(CCS811_SLAVEADDR_0)...?
FlashSetAddr ==
    /\ pc = "f_addr"
    /\ \E ok \in BOOLEAN :
         LET r == map_err("Could not set slave addr",
                          IF ok THEN Ok ELSE Err("ioctl", <<>>)) IN
         /\ pc' = Try(r, "f_reset1")
         /\ result' = IF r.ok THEN result ELSE r
    /\ UNCHANGED <<hasWake, wakeLevel, op, trace, first, data, i, mode, arg,
                   chipTracksValid, appValid, prev, prevFail>>

\* self.reset()?
FlashReset1 ==
    /\ pc = "f_reset1"
    /\ \E ok \in BOOLEAN :
         FlashStep(Write(CCS811_SW_RESET, RESET_MAGIC, ok), reset(ok), "f_valid")
    /\ UNCHANGED <<hasWake, wakeLevel, op, first, data, i, mode, arg,
                   chipTracksValid, appValid, prev, prevFail>>

\* self.check_status(CCS811_STATUS_APP_VALID).map_err("Not valid")?
FlashCheckValid ==
    /\ pc = "f_valid"
    /\ \E ok \in BOOLEAN, s \in StatusValues :
         /\ StatusReadable(s)
         /\ FlashStep(Read(CCS811_STATUS, IF ok THEN <<s>> ELSE <<>>, ok),
                      map_err("Not valid", check_status(CCS811_STATUS_APP_VALID, ok, s)),
                      "f_erase")
    /\ UNCHANGED <<hasWake, wakeLevel, op, first, data, i, mode, arg,
                   chipTracksValid, appValid, prev, prevFail>>

\* self.erase_app()?
FlashErase ==
    /\ pc = "f_erase"
    /\ \E ok \in BOOLEAN :
         /\ FlashStep(Write(CCS811_APP_ERASE, ERASE_MAGIC, ok), erase_app(ok), "f_erased")
         /\ appValid' = ChipAfterErase(ok)
    /\ UNCHANGED <<hasWake, wakeLevel, op, first, data, i, mode, arg, chipTracksValid, prev,
                   prevFail>>

\* self.check_status(CCS811_STATUS_APP_ERASE).map_err("Not erased")?
FlashCheckErased ==
    /\ pc = "f_erased"
    /\ \E ok \in BOOLEAN, s \in StatusValues :
         /\ StatusReadable(s)
         /\ FlashStep(Read(CCS811_STATUS, IF ok THEN <<s>> ELSE <<>>, ok),
                      map_err("Not erased", check_status(CCS811_STATUS_APP_ERASE, ok, s)),
                      "f_chunk")
    /\ UNCHANGED <<hasWake, wakeLevel, op, first, data, i, mode, arg,
                   chipTracksValid, appValid, prev, prevFail>>

\* one iteration of the loop: leave it when i >= data.len(), else write
\* data[i..end] to the application-data register and advance i by 8
FlashChunk ==
    /\ pc = "f_chunk"
    /\ IF i >= Len(data)
       THEN /\ pc' = "f_verify"
            /\ UNCHANGED <<trace, result, i>>
       ELSE \E ok \in BOOLEAN :
              LET end == ChunkEnd(i, Len(data))
                  r == IF ok THEN Ok ELSE Err("Could not write firmware", <<>>) IN
              /\ FlashStep(Write(CCS811_APP_DATA, Slice(data, i, end), ok), r, "f_chunk")
              /\ i' = IF r.ok THEN Advance(i) ELSE i
    /\ UNCHANGED <<hasWake, wakeLevel, op, first, data, mode, arg,
                   chipTracksValid, appValid, prev, prevFail>>

\* self.i2c.write(&[CCS811_APP_VERIFY])...?
FlashVerify ==
    /\ pc = "f_verify"
    /\ \E ok \in BOOLEAN :
         /\ FlashStep(Write(CCS811_APP_VERIFY, <<>>, ok),
                      IF ok THEN Ok ELSE Err("Could not reset verify bit", <<>>),
                      "f_verified")
         /\ appValid' = ChipAfterVerify(ok)
    /\ UNCHANGED <<hasWake, wakeLevel, op, first, data, i, mode, arg, chipTracksValid, prev,
                   prevFail>>

\* self.check_status(ERASE | VERIFY | VALID).map_err("Not verified")?
FlashCheckVerified ==
    /\ pc = "f_verified"
    /\ \E ok \in BOOLEAN, s \in StatusValues :
         /\ StatusReadable(s)
         /\ FlashStep(Read(CCS811_STATUS, IF ok THEN <<s>> ELSE <<>>, ok),
                      map_err("Not verified", check_status(VerifiedMask, ok, s)),
                      "f_reset2")
    /\ UNCHANGED <<hasWake, wakeLevel, op, first, data, i, mode, arg,
                   chipTracksValid, appValid, prev, prevFail>>

\* self.reset()?
FlashReset2 ==
    /\ pc = "f_reset2"
    /\ \E ok \in BOOLEAN :
         FlashStep(Write(CCS811_SW_RESET, RESET_MAGIC, ok), reset(ok), "f_final")
    /\ UNCHANGED <<hasWake, wakeLevel, op, first, data, i, mode, arg,
                   chipTracksValid, appValid, prev, prevFail>>

\* self.check_status(CCS811_STATUS_APP_VALID).map_err("Unexpected status after flashing")
FlashFinalCheck ==
    /\ pc = "f_final"
    /\ \E ok \in BOOLEAN, s \in StatusValues :
         /\ StatusReadable(s)
         /\ trace' = Append(trace, Read(CCS811_STATUS, IF ok THEN <<s>> ELSE <<>>, ok))
         /\ result' = map_err("Unexpected status after flashing",
                              check_status(CCS811_STATUS_APP_VALID, ok, s))
    /\ pc' = "done"
    /\ UNCHANGED <<hasWake, wakeLevel, op, first, data, i, mode, arg,
                   chipTracksValid, appValid, prev, prevFail>>

----------------------------------------------------------------------------
(* float_to_bytes(value)                                                   *)
(*                                                                         *)
(* An f32 input below 128 with its fraction on the binary grid 1/Den is    *)
(* the integer v = value * Den.  floor, the subtraction of base, the       *)
(* product with 512.0 and the subtraction of 1.0 are exact on such inputs, *)
(* so the arithmetic is done on the numerator over Den.                    *)

\* binary digits of the fraction of an input
FracBits == 10

Den == 2 ^ FracBits

\* `x as u16` of the f32 x = num / Den, wrapping modulo 2^16
f32_as_u16_wrapping(num, den) ==
    IF num >= 0 THEN (num \div den) % 65536
    ELSE (65536 - (((-num) \div den) % 65536)) % 65536

\* `x as u16` of the f32 x = num / Den: rounds toward zero and saturates
f32_as_u16(num, den) ==
    IF num < 0 THEN 0
    ELSE IF num \div den > 65535 THEN 65535
    ELSE num \div den

\* `x as u8` of a non-negative whole f32
f32_as_u8(x) == IF x > 255 THEN 255 ELSE x

\* let base = value.floor()
Base(v) == v \div Den

\* a fraction taken without the `- 1.0`
FractionNoMinusOne(v) ==
    LET c == f32_as_u16((v - Base(v) * Den) * 512, Den) IN
    IF c < 511 THEN c ELSE 511

\* let fraction = min(((value - base) * 512.0 - 1.0) as u16, 511)
Fraction(v) ==
    LET c == f32_as_u16((v - Base(v) * Den) * 512 - Den, Den) IN
    IF c < 511 THEN c ELSE 511

\* a high byte that takes bit 7 of the fraction
HighByteBit7(base, fraction) ==
    BitOr((BitAnd(f32_as_u8(base), 127) * 2) % 256,
          BitAndN(fraction, 128, 16) \div 64)

\* ((base as u8 & 0b1111111) << 1) | ((&fraction & 0b100000000) >> 8) as u8
HighByte(base, fraction) ==
    BitOr((BitAnd(f32_as_u8(base), 127) * 2) % 256,
          BitAndN(fraction, 256, 16) \div 256)

\* (&fraction & 0xFF) as u8
LowByte(fraction) == BitAndN(fraction, 255, 16)

float_to_bytes(v) == <<HighByte(Base(v), Fraction(v)), LowByte(Fraction(v))>>

----------------------------------------------------------------------------
(* Version, baseline and environmental-data accessors *)

\* values of the one-byte and two-byte version registers
VersionBytes == {16, 18}
VersionWords == {<<16, 0>>, <<32, 1>>}

\* baseline words
Baselines == {0, 41394}

\* humidity and temperature inputs: 0, 23.3 (as f32, cut to the grid), 25, 48.5
EnvValues == {0, 23 * Den + (3 * Den) \div 10, 25 * Den, 48 * Den + Den \div 2}

CallHardwareVersion == Enter("hardware_version", "hv", <<>>, 0, <<>>)
CallBootloaderVersion == Enter("bootloader_version", "bv", <<>>, 0, <<>>)
CallApplicationVersion == Enter("application_version", "av", <<>>, 0, <<>>)
CallGetBaseline == Enter("get_baseline", "gb", <<>>, 0, <<>>)
CallSetBaseline == \E w \in Baselines : Enter("set_baseline", "sb", <<>>, 0, <<w>>)
CallSetEnvData ==
    \E h \in EnvValues, t \in EnvValues : Enter("set_env_data", "env", <<>>, 0, <<h, t>>)

\* an accessor: one transaction, whose outcome is the result of the call
Accessor(p, ev, r) ==
    /\ pc = p
    /\ trace' = Append(trace, ev)
    /\ result' = r
    /\ pc' = "done"
    /\ UNCHANGED <<hasWake, wakeLevel, op, first, data, i, mode, arg,
                   chipTracksValid, appValid, prev, prevFail>>

\* a hardware_version() bracketed by awake() and sleep()
HardwareVersionBracketed ==
    /\ pc = "hv"
    /\ \E ok \in BOOLEAN, b \in VersionBytes :
         /\ trace' = AwakeEvents
                     \o <<Read(CCS811_HW_VERSION, IF ok THEN <<b>> ELSE <<>>, ok)>>
                     \o SleepEvents
         /\ result' = IF ok THEN OkBytes(<<b>>)
                      ELSE Err("Could not read hardware version", <<>>)
    /\ wakeLevel' = SleepLevel
    /\ pc' = "done"
    /\ UNCHANGED <<hasWake, op, first, data, i, mode, arg,
                   chipTracksValid, appValid, prev, prevFail>>

\* self.i2c.smbus_read_byte(CCS811_HW_VERSION).map_err(...)
HardwareVersion ==
    \E ok \in BOOLEAN, b \in VersionBytes :
        Accessor("hv", Read(CCS811_HW_VERSION, IF ok THEN <<b>> ELSE <<>>, ok),
                 IF ok THEN OkBytes(<<b>>)
                 ELSE Err("Could not read hardware version", <<>>))

\* self.i2c.block_read(CCS811_FW_BOOT_VERSION, &mut buffer)...?; Ok(buffer)
BootloaderVersion ==
    \E ok \in BOOLEAN, w \in VersionWords :
        Accessor("bv", Read(CCS811_FW_BOOT_VERSION, IF ok THEN w ELSE <<>>, ok),
                 IF ok THEN OkBytes(w)
                 ELSE Err("Could not read boot loader version", <<>>))

\* self.i2c.block_read(CCS811_FW_APP_VERSION, &mut buffer)...?; Ok(buffer)
ApplicationVersion ==
    \E ok \in BOOLEAN, w \in VersionWords :
        Accessor("av", Read(CCS811_FW_APP_VERSION, IF ok THEN w ELSE <<>>, ok),
                 IF ok THEN OkBytes(w)
                 ELSE Err("Could not read application version", <<>>))

\* self.i2c.smbus_read_word(CCS811_BASELINE).map_err(...)
GetBaseline ==
    \E ok \in BOOLEAN, w \in Baselines :
        Accessor("gb", Read(CCS811_BASELINE, IF ok THEN <<w>> ELSE <<>>, ok),
                 IF ok THEN OkBytes(<<w>>)
                 ELSE Err("Could not read baseline", <<>>))

\* self.i2c.smbus_write_word(CCS811_BASELINE, baseline).map_err(...)
SetBaseline ==
    \E ok \in BOOLEAN :
        Accessor("sb", Write(CCS811_BASELINE, arg, ok),
                 IF ok THEN Ok ELSE Err("Could not set baseline", <<>>))

\* [float_to_bytes(humidity), float_to_bytes(temperature)].concat(), written
\* to the environmental-data register in one block_write
SetEnvData ==
    \E ok \in BOOLEAN :
        Accessor("env",
                 Write(CCS811_ENV_DATA,
                       float_to_bytes(arg[1]) \o float_to_bytes(arg[2]), ok),
                 IF ok THEN Ok ELSE Err("Could npt write env data", <<>>))

----------------------------------------------------------------------------
(* The driver *)

Next ==
    \/ CallBegin
    \/ BeginSetAddr
    \/ BeginAwake
    \/ BeginReset
    \/ BeginCheckHwId
    \/ BeginAppStart
    \/ BeginCheckStatus
    \/ BeginFinish
    \/ CallStart
    \/ StartAwake
    \/ StartWrite
    \/ CallRead
    \/ ReadAwake
    \/ ReadBlock
    \/ CallFlash
    \/ FlashSetAddr
    \/ FlashReset1
    \/ FlashCheckValid
    \/ FlashErase
    \/ FlashCheckErased
    \/ FlashChunk
    \/ FlashVerify
    \/ FlashCheckVerified
    \/ FlashReset2
    \/ FlashFinalCheck
    \/ CallHardwareVersion
    \/ HardwareVersion
    \/ CallBootloaderVersion
    \/ BootloaderVersion
    \/ CallApplicationVersion
    \/ ApplicationVersion
    \/ CallGetBaseline
    \/ GetBaseline
    \/ CallSetBaseline
    \/ SetBaseline
    \/ CallSetEnvData
    \/ SetEnvData

Spec == Init /\ [][Next]_vars

\* flash() called over and over on a driver without a wake line, each call
\* remembering the failure of the one before
InitFlash == Init /\ ~hasWake /\ ~chipTracksValid

NextFlash ==
    \/ CallFlashAgain
    \/ FlashSetAddr
    \/ FlashReset1
    \/ FlashCheckValid
    \/ FlashErase
    \/ FlashCheckErased
    \/ FlashChunk
    \/ FlashVerify
    \/ FlashCheckVerified
    \/ FlashReset2
    \/ FlashFinalCheck

SpecFlash == InitFlash /\ [][NextFlash]_vars

\* set_env_data() on its own, entered with a humidity anywhere on the grid
\* below 128 around a set of integer parts, and one of two temperatures
CodecBases == {0, 1, 2, 48, 63, 64, 126, 127}

CodecInputs == {b * Den + q : b \in CodecBases, q \in 0..(Den - 1)}

InitCodec ==
    /\ hasWake = FALSE
    /\ wakeLevel = "none"
    /\ op = "set_env_data"
    /\ pc = "env"
    /\ trace = <<>>
    /\ result = NoResult
    /\ first = Ok
    /\ data = <<>>
    /\ i = 0
    /\ mode = 0
    /\ arg \in {<<h, t>> : h \in CodecInputs, t \in {25 * Den, 23 * Den + (3 * Den) \div 10}}
    /\ chipTracksValid = FALSE
    /\ appValid = FALSE
    /\ prev = "none"
    /\ prevFail = NoFail

NextCodec == SetEnvData

SpecCodec == InitCodec /\ [][NextCodec]_vars

----------------------------------------------------------------------------
(* Reading the trace of a call *)

IsWrite(e, reg) == e.kind = "write" /\ e.reg = reg
IsRead(e, reg) == e.kind = "read" /\ e.reg = reg
IsBus(e) == e.kind \in {"write", "read"}

\* positions of the trace that hold a status read
StatusReads == {j \in 1..Len(trace) : IsRead(trace[j], CCS811_STATUS)}

\* bit k of byte b
Bit(b, k) == (b \div (2 ^ k)) % 2

----------------------------------------------------------------------------
(* C1 *)

\* a step of begin() that failed before application start
FailedEarlyStep(e) ==
    \/ IsWrite(e, CCS811_SW_RESET) /\ ~e.ok
    \/ IsRead(e, CCS811_HW_ID) /\ e.data # <<HW_ID_EXPECTED>>

\* C1: in begin(), after a failed reset write or a hardware-id read that failed
\* or returned a value other than 0x81, no application-start write and no
\* status read is issued in that call.
C1_AbortBeforeAppStart ==
    op = "begin" =>
        \A j, k \in 1..Len(trace) :
            (j < k /\ FailedEarlyStep(trace[j]))
                => ~(IsWrite(trace[k], CCS811_APP_START) \/ IsRead(trace[k], CCS811_STATUS))

----------------------------------------------------------------------------
(* C2 *)

\* C2: when every bus transaction of begin() succeeds, the hardware id reads
\* 0x81 and the status read has the app-mode and verify bits set, begin()
\* returns success and a configured wake line ends driven high.
C2_BeginSucceeds ==
    ( /\ op = "begin"
      /\ pc = "done"
      /\ \A j \in 1..Len(trace) : trace[j].ok
      /\ \E j \in 1..Len(trace) :
            IsRead(trace[j], CCS811_HW_ID) /\ trace[j].data = <<HW_ID_EXPECTED>>
      /\ \E j \in StatusReads :
            Bit(trace[j].data[1], 7) = 1 /\ Bit(trace[j].data[1], 5) = 1 )
    => (result.ok /\ (hasWake => wakeLevel = "high"))

\* What the driver does instead: begin() never returns success.
BeginNeverSucceeds == (op = "begin" /\ pc = "done") => ~result.ok

----------------------------------------------------------------------------
(* C3 *)

\* all bits of mask are set in status
HasAllBits(status, mask) == \A k \in 0..7 : Bit(mask, k) = 1 => Bit(status, k) = 1

\* C3: the "Not verified" checkpoint of flash() passes exactly when
\* erase-complete, verify-complete and valid-application are all set in the
\* status byte it read.
C3_VerifiedNeedsAllBits ==
    ( /\ op = "flash"
      /\ Len(trace) > 0
      /\ IsRead(trace[Len(trace)], CCS811_STATUS)
      /\ trace[Len(trace)].ok
      /\ \/ pc = "f_reset2"
         \/ pc = "done" /\ result.label = <<"Not verified", "Chip status is not">> )
    => (pc = "f_reset2" <=> HasAllBits(trace[Len(trace)].data[1], 112))

----------------------------------------------------------------------------
(* C4 *)

\* C4: on a chip whose erase command clears the valid-application bit, the
\* flash() call that follows one aborted at a chunk write passes its first
\* checkpoint when its reset write and status read succeed on the bus.
C4_RetryPassesFirstCheckpoint ==
    ( /\ chipTracksValid
      /\ prev = "flashChunkAbort"
      /\ op = "flash"
      /\ Len(trace) >= 2
      /\ trace[1].ok
      /\ trace[2].ok )
    => ~(pc = "done" /\ Len(trace) = 2)

\* What the driver does instead: on such a chip the retry never gets past its
\* first checkpoint.
RetryNeverPassesFirstCheckpoint ==
    (chipTracksValid /\ prev = "flashChunkAbort" /\ op = "flash")
    => pc \in {"f_addr", "f_reset1", "f_valid", "done"} /\ ~result.ok

----------------------------------------------------------------------------
(* C5 *)

\* C5: flash() stops at the first step that fails: a bus transaction that
\* failed is the last one of the call, a recorded failure ends the call, and a
\* status read at the "Not erased" checkpoint without the erase-complete bit
\* is never followed by another transaction (so never by a chunk write).
C5_FlashHardStops ==
    op = "flash" =>
        /\ \A j \in 1..Len(trace) : ~trace[j].ok => j = Len(trace)
        /\ result # NoResult => pc = "done"
        /\ \A j \in StatusReads :
              ( /\ Cardinality({k \in StatusReads : k < j}) = 1
                /\ trace[j].ok
                /\ Bit(trace[j].data[1], 6) = 0 )
              => j = Len(trace) /\ pc = "done" /\ ~result.ok
        /\ \A j, k \in 1..Len(trace) :
              (j < k /\ IsWrite(trace[j], CCS811_APP_DATA) /\ ~trace[j].ok)
                 => ~(IsWrite(trace[k], CCS811_APP_VERIFY) \/ IsWrite(trace[k], CCS811_SW_RESET))

\* flash() stopped at the "Not erased" checkpoint, after four transactions
C5_Witness ==
    /\ op = "flash"
    /\ pc = "done"
    /\ result.label = <<"Not erased", "Chip status is not">>
    /\ Len(trace) = 4
    /\ Len(data) > 0

----------------------------------------------------------------------------
(* C6 *)

\* the application-data writes of the call, in issue order
ChunkWrites == SelectSeq(trace, LAMBDA e : IsWrite(e, CCS811_APP_DATA))

\* bytes [8k, min(8k+8, n)) of the image
ExpectedChunk(img, k) ==
    LET n == Len(img)
        hi == IF 8 * k + 8 < n THEN 8 * k + 8 ELSE n IN
    [j \in 1..(hi - 8 * k) |-> img[8 * k + j]]

RECURSIVE Concat(_)
Concat(ss) == IF ss = <<>> THEN <<>> ELSE Head(ss) \o Concat(Tail(ss))

\* the chunk loop has run to its end without a failure
ChunksWritten ==
    /\ op = "flash"
    /\ \/ pc \in {"f_verify", "f_verified", "f_reset2", "f_final"}
       \/ pc = "done" /\ \E j \in 1..Len(trace) : IsWrite(trace[j], CCS811_APP_VERIFY)

\* C6: once the chunk loop of flash() has run through an image of n bytes,
\* exactly ceil(n/8) application-data writes were issued, the k-th carrying
\* bytes [8k, min(8k+8, n)); all but the last hold 8 bytes, the last 1 to 8,
\* and their concatenation is the image.
C6_Chunking ==
    ChunksWritten =>
        LET w == ChunkWrites
            n == Len(data) IN
        /\ Len(w) = (n + 7) \div 8
        /\ \A k \in 0..(Len(w) - 1) : w[k + 1].data = ExpectedChunk(data, k)
        /\ \A k \in 1..(Len(w) - 1) : Len(w[k].data) = 8
        /\ Len(w) > 0 => Len(w[Len(w)].data) \in 1..8
        /\ Concat([k \in 1..Len(w) |-> w[k].data]) = data
        /\ n = 0 => w = <<>>

\* an image of 20 bytes went out as chunks of 8, 8 and 4 bytes
C6_Witness ==
    /\ ChunksWritten
    /\ Len(data) = 20
    /\ [k \in 1..Len(ChunkWrites) |-> Len(ChunkWrites[k].data)] = <<8, 8, 4>>

----------------------------------------------------------------------------
(* C7 *)

\* kind and register of every event of the trace
Shape == [j \in 1..Len(trace) |-> <<trace[j].kind, trace[j].reg>>]

\* C7: when flash() returns success its transactions were: reset write, status
\* read, erase write, status read, the chunk writes, verify write, status read,
\* reset write, status read; all succeeded and the last status read had the
\* valid-application bit set.
C7_FlashSuccessOrder ==
    (op = "flash" /\ pc = "done" /\ result.ok) =>
        LET nc == (Len(data) + 7) \div 8 IN
        /\ Shape = <<<<"write", CCS811_SW_RESET>>, <<"read", CCS811_STATUS>>,
                     <<"write", CCS811_APP_ERASE>>, <<"read", CCS811_STATUS>>>>
                   \o [k \in 1..nc |-> <<"write", CCS811_APP_DATA>>]
                   \o <<<<"write", CCS811_APP_VERIFY>>, <<"read", CCS811_STATUS>>,
                        <<"write", CCS811_SW_RESET>>, <<"read", CCS811_STATUS>>>>
        /\ \A j \in 1..Len(trace) : trace[j].ok
        /\ Bit(trace[Len(trace)].data[1], 4) = 1

\* a successful flash() of a 9-byte image
C7_Witness ==
    /\ op = "flash"
    /\ pc = "done"
    /\ result.ok
    /\ Len(data) = 9
    /\ Len(trace) = 10

----------------------------------------------------------------------------
(* C8 *)

\* place of an event in the sequence of begin()
BeginRank(e) ==
    CASE e = Pin("low") -> 1
      [] IsWrite(e, CCS811_SW_RESET) -> 2
      [] IsRead(e, CCS811_HW_ID) -> 3
      [] IsWrite(e, CCS811_APP_START) -> 4
      [] IsRead(e, CCS811_STATUS) -> 5
      [] e = Pin("high") -> 6
      [] OTHER -> 0

\* C8: the steps begin() performs after address selection come in the order
\* wake low, reset write, hardware-id read, application-start write, status
\* read; none comes before an earlier one of the list and none twice.
C8_BeginOrder ==
    op = "begin" =>
        /\ \A j \in 1..Len(trace) : BeginRank(trace[j]) # 0
        /\ \A j, k \in 1..Len(trace) :
              j < k => BeginRank(trace[j]) < BeginRank(trace[k])
        /\ (hasWake /\ Len(trace) > 0) => trace[1] = Pin("low")

\* begin() with a wake line has performed all five steps
C8_Witness ==
    /\ op = "begin"
    /\ pc = "done"
    /\ hasWake
    /\ [j \in 1..Len(trace) |-> BeginRank(trace[j])] = <<1, 2, 3, 4, 5>>

----------------------------------------------------------------------------
(* C9 *)

\* the block read() obtained from the bus
BlockRead ==
    /\ op = "read"
    /\ pc = "done"
    /\ \E j \in 1..Len(trace) : IsRead(trace[j], CCS811_ALG_RESULT_DATA) /\ trace[j].ok

Block == (CHOOSE e \in {trace[j] : j \in 1..Len(trace)} :
             IsRead(e, CCS811_ALG_RESULT_DATA)).data

\* C9: with the block read from the bus, read() succeeds exactly when byte 5
\* is 0, e_co2 = 256*byte0 + byte1 <= 8192 and t_voc = 256*byte2 + byte3 <= 1187,
\* and then returns these two values and the 8 raw bytes.
C9_ReadDecode ==
    BlockRead =>
        LET b == Block
            e_co2 == 256 * b[1] + b[2]
            t_voc == 256 * b[3] + b[4] IN
        /\ result.ok <=> (b[6] = 0 /\ e_co2 <= 8192 /\ t_voc <= 1187)
        /\ result.ok => result.val = [e_co2 |-> e_co2, t_voc |-> t_voc, raw |-> b]

\* read() accepted the largest readings: e_co2 = 8192 and t_voc = 1187
C9_Witness ==
    /\ BlockRead
    /\ result.ok
    /\ result.val.e_co2 = 8192
    /\ result.val.t_voc = 1187
    /\ Len(result.val.raw) = 8

----------------------------------------------------------------------------
(* C10 *)

\* C10: when byte 5 of the block is non-zero read() fails with the
\* chip-reported error carrying byte 5, never with the out-of-range error.
C10_ErrorFlagFirst ==
    (BlockRead /\ Block[6] # 0) =>
        /\ ~result.ok
        /\ result.label = <<"Some error while reading data">>
        /\ result.args = <<Block[6]>>

\* read() reported the chip's error 0xFF although e_co2 and t_voc were out of range
C10_Witness ==
    /\ BlockRead
    /\ Block[6] = 255
    /\ 256 * Block[1] + Block[2] > 8192
    /\ 256 * Block[3] + Block[4] > 1187
    /\ result.label = <<"Some error while reading data">>

----------------------------------------------------------------------------
(* C11 *)

\* C11: with a wake line configured, every call of start(mode) and read()
\* ends with the wake line driven high, whether it succeeded or failed.
C11_StartReadEndAsleep ==
    (hasWake /\ op \in {"start", "read"} /\ pc = "done") => wakeLevel = "high"

----------------------------------------------------------------------------
(* C12 *)

\* the step taken issues a bus transaction
BusIssued == Len(trace') > Len(trace) /\ IsBus(trace'[Len(trace) + 1])

PinEvents(level) == {j \in 1..Len(trace) : trace[j] = Pin(level)}

\* C12: with a wake line configured, every bus transaction of begin(),
\* start() and read() is issued while the wake line is low: after the call
\* drove it low and before it drives it high.
C12_BusWhileAwake ==
    [][(hasWake /\ op \in {"begin", "start", "read"} /\ BusIssued)
          => /\ wakeLevel = "low"
             /\ PinEvents("low") # {}
             /\ PinEvents("high") = {}]_vars

\* read() with a wake line: wake low, block read, wake high
C12_Witness ==
    /\ hasWake
    /\ op = "read"
    /\ pc = "done"
    /\ Len(trace) = 3
    /\ trace[1] = Pin("low")
    /\ IsRead(trace[2], CCS811_ALG_RESULT_DATA)
    /\ trace[3] = Pin("high")

----------------------------------------------------------------------------
(* C15 *)

\* the bus transactions of the call, in issue order
BusTrace == SelectSeq(trace, IsBus)

\* the measurement-mode byte of each mode, as the datasheet lays it out
ExpectedModeByte(m) ==
    CASE m = 0 -> 0
      [] m = 1 -> 16
      [] m = 2 -> 32
      [] m = 3 -> 48

\* C15: start(mode) issues exactly one bus transaction, a write to the
\* measurement-mode register (0x01) whose single byte is mode << 4:
\* Idle 0x00, Sec1 0x10, Sec10 0x20, Sec60 0x30.
C15_StartWritesMode ==
    (op = "start" /\ pc = "done") =>
        /\ Len(BusTrace) = 1
        /\ BusTrace[1].kind = "write"
        /\ BusTrace[1].reg = 1
        /\ BusTrace[1].data = <<ExpectedModeByte(mode)>>

\* start(Sec60) wrote 0x30 and returned success
C15_Witness ==
    /\ op = "start"
    /\ pc = "done"
    /\ mode = 3
    /\ result.ok
    /\ Len(BusTrace) = 1
    /\ BusTrace[1].kind = "write"
    /\ BusTrace[1].reg = CCS811_MEAS_MODE
    /\ BusTrace[1].data = <<48>>
    /\ BusTrace[1].ok

----------------------------------------------------------------------------
(* C19 *)

\* begin() returned a failure after the bus address was selected
BeginFailedAfterAddr ==
    /\ op = "begin"
    /\ pc = "done"
    /\ ~result.ok
    /\ result.label[1] # "Could not set slave addr"

\* C19: begin() drives a configured wake line high only when it succeeds; when
\* it fails after address selection the line is left low, and it stays low
\* until a step of start() or read() (or of a successful begin()) raises it.
C19_BeginFailureStaysAwake ==
    /\ [](hasWake =>
            /\ BeginFailedAfterAddr => (wakeLevel = "low" /\ PinEvents("high") = {})
            /\ (op = "begin" /\ PinEvents("high") # {}) => result.ok)
    /\ [][(hasWake /\ wakeLevel = "low" /\ wakeLevel' # "low")
             => (op' \in {"start", "read"} \/ (op' = "begin" /\ result'.ok))]_vars

\* begin() failed on a hardware-id mismatch and left the wake line low
C19_Witness ==
    /\ hasWake
    /\ BeginFailedAfterAddr
    /\ result.label = <<"HWID of chip is not 0x81 but">>
    /\ wakeLevel = "low"
    /\ Len(trace) = 5

----------------------------------------------------------------------------
(* C13 *)

\* the operations that are not bracketed by awake() and sleep()
UnbracketedOps ==
    {"hardware_version", "bootloader_version", "application_version",
     "get_baseline", "set_baseline", "set_env_data", "flash"}

\* positions of the trace that hold a pin action
PinActions == {j \in 1..Len(trace) : trace[j].kind \in {"set_low", "set_high"}}

\* C13: only begin(), start() and read() change the wake line: the version,
\* baseline and environmental-data accessors and flash() perform no pin action
\* and leave the level as it was, and without a wake line no operation
\* performs a pin action.
C13_OnlyBracketedOpsTouchWake ==
    /\ [](op \in UnbracketedOps => PinActions = {})
    /\ [](~hasWake => (PinActions = {} /\ wakeLevel = "none"))
    /\ [][wakeLevel' # wakeLevel => op' \in {"begin", "start", "read"}]_vars

\* set_env_data() wrote its four bytes while the wake line stayed low
C13_Witness ==
    /\ hasWake
    /\ wakeLevel = "low"
    /\ op = "set_env_data"
    /\ pc = "done"
    /\ result.ok
    /\ Len(trace) = 1
    /\ IsWrite(trace[1], CCS811_ENV_DATA)
    /\ Len(trace[1].data) = 4

----------------------------------------------------------------------------
(* C14 *)

\* C14: two flash() runs that fail at different steps of the procedure (first
\* reset, "not valid" check, erase, "not erased" check, chunk write, verify
\* command, "not verified" check, second reset, final check) return errors
\* with different labels.
C14_StepLabelsDistinct ==
    ( /\ op = "flash"
      /\ pc = "done"
      /\ ~result.ok
      /\ prevFail.step # "none"
      /\ prevFail.step # FlashStepReached )
    => prevFail.label # result.label

----------------------------------------------------------------------------
(* C16, C17, C18: the bytes set_env_data() wrote for its humidity argument *)

EnvWritten ==
    /\ op = "set_env_data"
    /\ pc = "done"
    /\ Len(trace) = 1
    /\ IsWrite(trace[1], CCS811_ENV_DATA)

\* [high, low] of the humidity
HumidityBytes == SubSeq(trace[1].data, 1, 2)

\* the humidity argument: its integer part, and its fraction in 1/Den
HumidityBase == arg[1] \div Den
HumidityFrac == arg[1] % Den

\* C16 as stated: an input with zero fractional part is encoded with the
\* fraction 511, i.e. as [(base << 1) | 1, 0xFF].
C16_WholeEncodesAs511 ==
    (EnvWritten /\ HumidityFrac = 0 /\ HumidityBase \in 0..127)
    => HumidityBytes = <<HumidityBase * 2 + 1, 255>>

\* C16 amended: an input with zero fractional part is encoded with the
\* fraction 0, i.e. as [base << 1, 0x00].
C16_WholeEncodesAs0 ==
    (EnvWritten /\ HumidityFrac = 0 /\ HumidityBase \in 0..127)
    => HumidityBytes = <<HumidityBase * 2, 0>>

\* set_env_data(48.0, _) wrote [0x60, 0x00] for the humidity
C16_Witness ==
    /\ EnvWritten
    /\ arg[1] = 48 * Den
    /\ HumidityBytes = <<96, 0>>

\* C17: for value = base + k/512 with 0 <= base <= 127 and 1 <= k <= 511 the
\* bytes are [high, low] with fraction = k - 1, high = (base << 1) | bit 8 of
\* fraction, low = fraction AND 0xFF; encode(48.5) = [0x60, 0xFF].
C17_GridEncoding ==
    /\ EnvWritten => Len(trace[1].data) = 4
    /\ ( /\ EnvWritten
         /\ HumidityBase \in 0..127
         /\ (HumidityFrac * 512) % Den = 0
         /\ (HumidityFrac * 512) \div Den \in 1..511 )
       => LET k == (HumidityFrac * 512) \div Den
              fraction == k - 1 IN
          HumidityBytes = <<HumidityBase * 2 + fraction \div 256, fraction % 256>>
    /\ (EnvWritten /\ arg[1] = 48 * Den + Den \div 2) => HumidityBytes = <<96, 255>>

\* set_env_data(48.5, _) wrote [0x60, 0xFF] for the humidity
C17_Witness ==
    /\ EnvWritten
    /\ arg[1] = 48 * Den + Den \div 2
    /\ HumidityBytes = <<96, 255>>

\* C18: for 0 <= value < 128, decoding the two bytes by the documented layout
\* gives back the integer part (high >> 1 = floor(value)) and a fraction
\* ((high AND 1) << 8) | low within 0..511.
C18_DecodeRecoversBase ==
    (EnvWritten /\ arg[1] >= 0 /\ arg[1] < 128 * Den)
    => LET high == HumidityBytes[1]
           low == HumidityBytes[2] IN
       /\ high \in 0..255
       /\ low \in 0..255
       /\ high \div 2 = HumidityBase
       /\ (high % 2) * 256 + low \in 0..511

\* the largest humidity of the grid, 127 + (Den - 1)/Den, wrote [0xFF, 0xFE]
C18_Witness ==
    /\ EnvWritten
    /\ arg[1] = 128 * Den - 1
    /\ HumidityBytes = <<255, 254>>

----------------------------------------------------------------------------
(* C20 *)

\* iterations of the chunk loop that still write a chunk
ChunksLeft == IF i >= Len(data) THEN 0 ELSE (Len(data) - i + 7) \div 8

\* an upper bound on the steps flash() has left
FlashMeasure ==
    CASE pc = "f_addr" -> 10 + (Len(data) + 7) \div 8
      [] pc = "f_reset1" -> 9 + (Len(data) + 7) \div 8
      [] pc = "f_valid" -> 8 + (Len(data) + 7) \div 8
      [] pc = "f_erase" -> 7 + (Len(data) + 7) \div 8
      [] pc = "f_erased" -> 6 + (Len(data) + 7) \div 8
      [] pc = "f_chunk" -> 5 + ChunksLeft
      [] pc = "f_verify" -> 4
      [] pc = "f_verified" -> 3
      [] pc = "f_reset2" -> 2
      [] pc = "f_final" -> 1
      [] OTHER -> 0

\* how many transactions of the trace went to a register, by kind
Count(kind, reg) ==
    Cardinality({j \in 1..Len(trace) : trace[j].kind = kind /\ trace[j].reg = reg})

\* C20: flash() terminates for every image: while it runs a step is always
\* possible, every step lowers the bound on the steps left, the chunk loop
\* writes at most ceil(n/8) chunks, and no other step is issued more often
\* than the procedure has it (two resets, four status reads, one erase, one
\* verify); a call that ended has returned success or a failure.
C20_FlashTerminates ==
    /\ [](op = "flash" =>
            /\ Count("write", CCS811_APP_DATA) <= (Len(data) + 7) \div 8
            /\ Count("write", CCS811_SW_RESET) <= 2
            /\ Count("read", CCS811_STATUS) <= 4
            /\ Count("write", CCS811_APP_ERASE) <= 1
            /\ Count("write", CCS811_APP_VERIFY) <= 1
            /\ FlashMeasure >= 0
            /\ pc # "done" => ENABLED NextFlash
            /\ pc = "done" <=> result # NoResult)
    /\ [][(op = "flash" /\ pc # "done") => FlashMeasure' < FlashMeasure]_vars

\* flash() of a 17-byte image ended after its three chunk writes
C20_Witness ==
    /\ op = "flash"
    /\ pc = "done"
    /\ Len(data) = 17
    /\ Count("write", CCS811_APP_DATA) = 3
    /\ Len(trace) = 11

====
